---- MODULE Spec2Model ----
(***************************************************************************)
(* A model of the four command-line scripts of gee_scale:                  *)
(*   export_oisst.py, export_hycom_temp0.py  queue an Earth Engine export  *)
(*   compare_sst.py   compares a remote SST value with a GeoTIFF sample    *)
(*   check_tif.py     prints metadata and statistics, saves a thumbnail    *)
(* One behaviour is one run of one script.  The command line is fixed in   *)
(* Init; what the outside world answers (does the file exist, what raster  *)
(* is in it, what Earth Engine returns) is drawn when the script asks.     *)
(*                                                                         *)
(* Numbers.  Command-line tokens are sequences of characters and are       *)
(* parsed digit by digit.  A Python float is a record [nan, v]: v counts   *)
(* thousandths for the thumbnail scale and hundredths for raster values,   *)
(* and arithmetic on v is exact (binary rounding of doubles is not         *)
(* modelled).                                                              *)
(***************************************************************************)
EXTENDS Integers, Sequences, FiniteSets, TLC

\* Largest raster height and width explored.
MaxDim == 2

VARIABLES
    script,      \* which script this run executes
    pc,          \* position in the script; "done" once the process has ended
    argv,        \* sys.argv[1:] of an export script: a sequence of tokens
    ee_ok,       \* `import ee` succeeds (the earthengine-api package is installed)
    plt,         \* check_tif.py: "module" or "None" after the guarded import
    args,        \* the argparse command line of compare_sst.py / check_tif.py
    ds,          \* the raster that rasterio.open returned, NoDs before that
    scale_m,     \* export_*.py, compare_sst.py: the parsed SCALE
    name,        \* export_*.py: the export's description / fileNamePrefix
    tiff_path,   \* compare_sst.py: the GeoTIFF path
    ee_val,      \* compare_sst.py: value fetched from Earth Engine
    rowcol,      \* compare_sst.py: <<row, col>> returned by ds.index
    val,         \* compare_sst.py: data[row, col] as read
    tif_val,     \* compare_sst.py: result of tiff_sst_value
    diff,        \* compare_sst.py: tif_val - ee_val
    stats,       \* check_tif.py: the stats dict
    scale,       \* check_tif.py: the clamped thumbnail scale
    new_hw,      \* check_tif.py: <<new_h, new_w>>
    effects,     \* calls made to collaborators (Earth Engine, rasterio, matplotlib)
    stdout,      \* lines printed, each <<tag, payload>>
    exit_code,   \* process exit status, meaningful when pc = "done"
    stderr       \* message that went with a non-zero exit

vars == <<script, pc, argv, ee_ok, plt, args, ds, scale_m, name, tiff_path,
          ee_val, rowcol, val, tif_val, diff, stats, scale, new_hw,
          effects, stdout, exit_code, stderr>>

-----------------------------------------------------------------------------
(* Python numbers *)

Abs(x) == IF x < 0 THEN -x ELSE x

\* A float that is a number, and the float NaN.
F(x) == [nan |-> FALSE, v |-> x]
NaN == [nan |-> TRUE, v |-> 0]

\* Python's a < b on floats: every comparison with NaN is False.
Lt(a, b) == ~a.nan /\ ~b.nan /\ a.v < b.v

\* Builtin min(a, b) / max(a, b): the first argument is kept unless the
\* second compares strictly smaller / greater.
PyMin(a, b) == IF Lt(b, a) THEN b ELSE a
PyMax(a, b) == IF Lt(a, b) THEN b ELSE a

\* math.floor(a / b) for b # 0.
FloorDiv(a, b) == IF b > 0 THEN a \div b ELSE (-a) \div (-b)

Digits == <<"0", "1", "2", "3", "4", "5", "6", "7", "8", "9">>
IsDigit(c) == \E i \in 1..10 : Digits[i] = c
DigitVal(c) == (CHOOSE i \in 1..10 : Digits[i] = c) - 1

RECURSIVE NatOf(_)
\* Value of a non-empty sequence of digit characters.
NatOf(t) == IF Len(t) = 0 THEN 0
            ELSE 10 * NatOf(SubSeq(t, 1, Len(t) - 1)) + DigitVal(t[Len(t)])

AllDigits(t) == Len(t) > 0 /\ \A i \in 1..Len(t) : IsDigit(t[i])
Unsigned(t) == IF Len(t) > 0 /\ t[1] \in {"-", "+"} THEN Tail(t) ELSE t
Negative(t) == Len(t) > 0 /\ t[1] = "-"

\* int(token) succeeds: an optional sign followed by one or more digits.
IsIntLiteral(t) == AllDigits(Unsigned(t))
\* int(token) when it succeeds.
IntOf(t) == IF Negative(t) THEN -NatOf(Unsigned(t)) ELSE NatOf(Unsigned(t))

RECURSIVE FormatNat(_)
\* str(n) for n >= 0, as an f-string renders it.
FormatNat(n) == IF n < 10 THEN Digits[n + 1]
                ELSE FormatNat(n \div 10) \o Digits[(n % 10) + 1]
FormatInt(n) == IF n < 0 THEN "-" \o FormatNat(-n) ELSE FormatNat(n)

\* Position of the decimal point in a token, 0 when there is none.
DotAt(t) == IF \E i \in 1..Len(t) : t[i] = "."
            THEN CHOOSE i \in 1..Len(t) : t[i] = "." /\ \A j \in 1..(i - 1) : t[j] # "."
            ELSE 0
IntPart(t) == IF DotAt(t) = 0 THEN t ELSE SubSeq(t, 1, DotAt(t) - 1)
FracPart(t) == IF DotAt(t) = 0 THEN <<>> ELSE SubSeq(t, DotAt(t) + 1, Len(t))
\* Thousandths denoted by up to three fraction digits.
FracMilli(f) == IF Len(f) = 0 THEN 0
                ELSE IF Len(f) = 1 THEN 100 * NatOf(f)
                ELSE IF Len(f) = 2 THEN 10 * NatOf(f)
                ELSE NatOf(f)

\* float(token) succeeds: "nan", or [sign] digits [. digits] with a digit on
\* at least one side of the point (fraction digits limited to three here).
IsFloatLiteral(t) ==
    \/ t = <<"n", "a", "n">>
    \/ LET u == Unsigned(t)
           i == IntPart(u)
           f == FracPart(u)
       IN /\ Len(i) + Len(f) > 0
          /\ Len(f) <= 3
          /\ \A k \in 1..Len(i) : IsDigit(i[k])
          /\ \A k \in 1..Len(f) : IsDigit(f[k])
\* float(token) when it succeeds, in thousandths.
FloatOf(t) ==
    IF t = <<"n", "a", "n">> THEN NaN
    ELSE LET u == Unsigned(t)
             m == 1000 * NatOf(IntPart(u)) + FracMilli(FracPart(u))
         IN F(IF Negative(t) THEN -m ELSE m)

-----------------------------------------------------------------------------
(* Command lines *)

Scripts == {"export_oisst", "export_hycom", "compare_sst", "check_tif"}
Exports == {"export_oisst", "export_hycom"}

\* SCALE tokens: 20000, 1500, 999, 0, -5, "ab", "1.5", "".
ScaleTokens == { <<"2", "0", "0", "0", "0">>, <<"1", "5", "0", "0">>,
                 <<"9", "9", "9">>, <<"0">>, <<"-", "5">>, <<"a", "b">>,
                 <<"1", ".", "5">>, <<>> }

\* --thumb-scale tokens: 0.2 (the default), 1, 0.5, 0.005, 0, -1, 5, nan, "x".
ThumbTokens == { <<"0", ".", "2">>, <<"1">>, <<"0", ".", "5">>,
                 <<"0", ".", "0", "0", "5">>, <<"0">>, <<"-", "1">>, <<"5">>,
                 <<"n", "a", "n">>, <<"x">> }

\* Command lines of an export script: zero, one or two arguments.
ExportArgvs == {<<>>} \cup { <<t>> : t \in ScaleTokens }
               \cup { <<t, <<"1">> >> : t \in {<<"2", "0", "0", "0", "0">>} }

\* Query points of compare_sst.py, in degrees.
Lons == {-1, 0, 3, 2 * MaxDim}
Lats == {1, 0, -3, -(2 * MaxDim)}

NoArgs == [lon |-> 0, lat |-> 0, scale |-> <<>>, file |-> "None",
           tif |-> "None", thumb |-> FALSE, thumb_scale |-> <<>>, show |-> FALSE]

CompareArgs == { [NoArgs EXCEPT !.lon = x, !.lat = y, !.scale = s, !.file = f] :
                 x \in Lons, y \in Lats, s \in ScaleTokens,
                 f \in {"None", "other.tif"} }

CheckArgs == { [NoArgs EXCEPT !.tif = "in.tif", !.thumb = t, !.thumb_scale = s,
                              !.show = w] :
               t \in BOOLEAN, s \in ThumbTokens, w \in BOOLEAN }

-----------------------------------------------------------------------------
(* Rasters *)

\* The affine geotransform (a, b, c, d, e, f) of every raster explored:
\* x = a*col + b*row + c, y = d*col + e*row + f; north-up, 2-degree pixels.
Transform == [a |-> 2, b |-> 0, c |-> 0, d |-> 0, e |-> -2, f |-> 0]

\* A no-data sentinel, -9999.00 in hundredths, and a value 0.05 above it.
Sentinel == -(9999 * 100)
NearSentinel == Sentinel + 5

\* ds.nodata: None, or the sentinel.
NoNodata == [none |-> TRUE, v |-> 0]
Nodatas == {NoNodata, [none |-> FALSE, v |-> Sentinel]}

\* Cell (r, c) of a width-w raster of the given kind.
Cell(kind, w, r, c) ==
    CASE kind = "ramp"   -> 100 * (1 + r * w + c)
      [] kind = "corner" -> IF r = 0 /\ c = 0 THEN Sentinel ELSE 100 * (1 + r * w + c)
      [] kind = "near"   -> IF r = 0 /\ c = 0 THEN NearSentinel ELSE 100 * (1 + r * w + c)
      [] kind = "empty"  -> Sentinel

GridKinds == {"ramp", "corner", "near", "empty"}

\* ds.crs: an EPSG code, "custom" (to_epsg() is None) or "None" (no CRS).
CrsSet == {"4326", "3857", "custom", "None"}

NoDs == [height |-> 0, width |-> 0, grid |-> << >>, nodata |-> NoNodata,
         crs |-> "None", transform |-> Transform]

Raster(h, w, kind, nd, crs) ==
    [height |-> h, width |-> w,
     grid |-> [r \in 0..(h - 1) |-> [c \in 0..(w - 1) |-> Cell(kind, w, r, c)]],
     nodata |-> nd, crs |-> crs, transform |-> Transform]

Rasters(crsSet) == { Raster(h, w, k, nd, crs) :
                     h \in 1..MaxDim, w \in 1..MaxDim, k \in GridKinds,
                     nd \in Nodatas, crs \in crsSet }

Cells(d) == (0..(d.height - 1)) \X (0..(d.width - 1))

-----------------------------------------------------------------------------
Init ==
    /\ script \in Scripts
    /\ pc = "start"
    /\ ee_ok \in (IF script = "check_tif" THEN {TRUE} ELSE BOOLEAN)
    /\ plt \in (IF script = "check_tif" THEN {"module", "None"} ELSE {"None"})
    /\ argv \in (IF script \in Exports THEN ExportArgvs ELSE {<<>>})
    /\ args \in (CASE script = "compare_sst" -> CompareArgs
                   [] script = "check_tif" -> CheckArgs
                   [] OTHER -> {NoArgs})
    /\ ds = NoDs
    /\ scale_m = 0
    /\ name = ""
    /\ tiff_path = ""
    /\ ee_val = NaN
    /\ rowcol = <<0, 0>>
    /\ val = 0
    /\ tif_val = NaN
    /\ diff = 0
    /\ stats = [masked |-> FALSE, min |-> 0, max |-> 0, sum |-> 0, count |-> 0]
    /\ scale = F(0)
    /\ new_hw = <<0, 0>>
    /\ effects = <<>>
    /\ stdout = <<>>
    /\ exit_code = 0
    /\ stderr = ""

\* The process ends with the given status and message.
Exit(code, msg) ==
    /\ pc' = "done"
    /\ exit_code' = code
    /\ stderr' = msg

-----------------------------------------------------------------------------
(* export_oisst.py and export_hycom_temp0.py *)

ExportPrefix(s) == IF s = "export_oisst" THEN "oisst_20200315_" ELSE "hycom_temp0_20200315_"

\* tag = f"s{scale_m // 1000}k"; name = f"<prefix>{tag}"
ExportName(s, m) == ExportPrefix(s) \o "s" \o FormatInt(m \div 1000) \o "k"

\* SCALE is accepted by the __main__ block: int() succeeds and scale > 0.
ExportScaleOk(t) == IsIntLiteral(t) /\ IntOf(t) > 0

\* Module import and the __main__ block up to the call of main(scale).
ExportStart ==
    /\ script \in Exports
    /\ pc = "start"
    /\ IF ~ee_ok
         THEN Exit(1, "ModuleNotFoundError: ee") /\ UNCHANGED scale_m
       ELSE IF Len(argv) # 1
         THEN Exit(1, "Usage") /\ UNCHANGED scale_m
       ELSE IF ~ExportScaleOk(argv[1])
         THEN Exit(1, "SCALE must be a positive integer") /\ UNCHANGED scale_m
       ELSE /\ scale_m' = IntOf(argv[1])
            /\ pc' = "main"
            /\ UNCHANGED <<exit_code, stderr>>
    /\ UNCHANGED <<script, argv, ee_ok, plt, args, ds, name, tiff_path, ee_val,
                   rowcol, val, tif_val, diff, stats, scale, new_hw, effects, stdout>>

\* main(scale_m): initialise Earth Engine, build the image, start the task.
ExportMain ==
    /\ script \in Exports
    /\ pc = "main"
    /\ name' = ExportName(script, scale_m)
    /\ effects' = effects \o <<"ee.Initialize", "Export.image.toDrive", "task.start">>
    /\ stdout' = Append(stdout, <<"Started Drive export", name'>>)
    /\ Exit(0, "")
    /\ UNCHANGED <<script, argv, ee_ok, plt, args, ds, scale_m, tiff_path, ee_val,
                   rowcol, val, tif_val, diff, stats, scale, new_hw>>

-----------------------------------------------------------------------------
(* compare_sst.py *)

\* A default name whose tag counts hundreds of metres instead of kilometres.
make_default_fname_hundreds(m) ==
    "oisst_20200315_" \o "s" \o FormatInt(m \div 100) \o "k" \o ".tif"

\* tag = f"s{scale_m // 1000}k"; Path(f"oisst_20200315_{tag}.tif")
make_default_fname(m) == "oisst_20200315_" \o "s" \o FormatInt(m \div 1000) \o "k" \o ".tif"

\* argparse type=int accepts exactly what int() accepts.
CompareScaleOk(t) == IsIntLiteral(t)

\* What reduceRegion(...).get("sst").getInfo() can give: None (mapped to NaN)
\* or a number.
EeResults == {NaN, F(150), F(200)}

\* The module's imports, parse_args() and main() up to the first print.
CmpParseArgs ==
    /\ script = "compare_sst"
    /\ pc = "start"
    /\ IF ~ee_ok
         THEN Exit(1, "ModuleNotFoundError: ee") /\ UNCHANGED <<scale_m, tiff_path, stdout>>
       ELSE IF ~CompareScaleOk(args.scale)
         THEN Exit(2, "argument scale: invalid int value")
              /\ UNCHANGED <<scale_m, tiff_path, stdout>>
       ELSE /\ scale_m' = IntOf(args.scale)
            /\ tiff_path' = IF args.file # "None" THEN args.file
                            ELSE make_default_fname(scale_m')
            /\ stdout' = stdout \o << <<"Comparing SST", <<args.lon, args.lat, scale_m'>> >>,
                                      <<"GeoTIFF", tiff_path'>> >>
            /\ pc' = "ee"
            /\ UNCHANGED <<exit_code, stderr>>
    /\ UNCHANGED <<script, argv, ee_ok, plt, args, ds, name, ee_val, rowcol, val,
                   tif_val, diff, stats, scale, new_hw, effects>>

\* ee_sst_value(lon, lat, scale_m): the remote call answers or raises.
CmpEeValue ==
    /\ script = "compare_sst"
    /\ pc = "ee"
    /\ effects' = effects \o <<"ee.Initialize", "reduceRegion.getInfo">>
    /\ \/ \E r \in EeResults :
             /\ ee_val' = r
             /\ pc' = "tiff"
             /\ UNCHANGED <<exit_code, stderr>>
       \/ Exit(1, "EEException") /\ UNCHANGED ee_val
    /\ UNCHANGED <<script, argv, ee_ok, plt, args, ds, scale_m, name, tiff_path,
                   rowcol, val, tif_val, diff, stats, scale, new_hw, stdout>>

\* A CRS check that rejects only a CRS without an EPSG code.
CrsRejected_any_epsg(crs) == crs = "custom"

\* ds.crs.to_epsg() != 4326
CrsRejected(crs) == crs # "4326"

\* ds.index(lon, lat): floor of the inverted geotransform (no rotation).
Index(d, lon, lat) == << FloorDiv(lat - d.transform.f, d.transform.e),
                         FloorDiv(lon - d.transform.c, d.transform.a) >>

\* numpy indexing along an axis of length n: i is accepted when -n <= i < n,
\* and a negative i counts from the end.
NpIndexOk(i, n) == -n <= i /\ i < n
NpWrap(i, n) == IF i < 0 THEN i + n ELSE i

\* numpy's default tolerances: rtol = 1e-05 = 1/RtolInv, atol = 1e-08.
RtolInv == 100000

\* np.isclose(a, b): |a - b| <= atol + rtol * |b|.  In hundredths
\* (a = A/100, b = B/100) this is RtolInv * |A - B| <= |B| + 0.1, and for
\* integers A, B that is |A - B| <= |B| \div RtolInv.
IsClose(a, b) == Abs(a - b) <= Abs(b) \div RtolInv

\* `nodata is not None and np.isclose(val, nodata)`
SampleIsNodata(v, nd) == ~nd.none /\ IsClose(v, nd.v)

\* tiff_sst_value(path, lon, lat).
CmpTiffValue ==
    /\ script = "compare_sst"
    /\ pc = "tiff"
    /\ \/ /\ effects' = effects \o <<"path.exists">>
          /\ Exit(1, "TIFF not found")
          /\ UNCHANGED <<ds, rowcol, val, tif_val>>
       \/ \E d \in Rasters(CrsSet) :
             /\ ds' = d
             /\ IF d.crs = "None"
                  THEN /\ effects' = effects \o <<"path.exists", "rasterio.open">>
                       /\ Exit(1, "AttributeError: NoneType has no attribute to_epsg")
                       /\ UNCHANGED <<rowcol, val, tif_val>>
                ELSE IF CrsRejected(d.crs)
                  THEN /\ effects' = effects \o <<"path.exists", "rasterio.open">>
                       /\ Exit(1, "TIFF CRS is not EPSG:4326")
                       /\ UNCHANGED <<rowcol, val, tif_val>>
                ELSE LET rc == Index(d, args.lon, args.lat)
                     IN /\ rowcol' = rc
                        /\ effects' = effects \o <<"path.exists", "rasterio.open",
                                                   "ds.index", "ds.read">>
                        /\ IF NpIndexOk(rc[1], d.height) /\ NpIndexOk(rc[2], d.width)
                             THEN /\ val' = d.grid[NpWrap(rc[1], d.height)][NpWrap(rc[2], d.width)]
                                  /\ tif_val' = IF SampleIsNodata(val', d.nodata)
                                                THEN NaN ELSE F(val')
                                  /\ pc' = "report"
                                  /\ UNCHANGED <<exit_code, stderr>>
                           ELSE /\ Exit(1, "IndexError")
                                /\ UNCHANGED <<val, tif_val>>
    /\ UNCHANGED <<script, argv, ee_ok, plt, args, scale_m, name, tiff_path, ee_val,
                   diff, stats, scale, new_hw, stdout>>

\* The difference with its operands swapped.
Difference_swapped(tif, ee) == ee - tif

\* diff = tif_val - ee_val
Difference(tif, ee) == tif - ee

\* The rest of main(): print both values and the difference.
CmpReport ==
    /\ script = "compare_sst"
    /\ pc = "report"
    /\ IF ee_val.nan \/ tif_val.nan
         THEN /\ stdout' = stdout \o << <<"EE value", ee_val>>, <<"TIFF value", tif_val>>,
                                        <<"One of the values is NaN", <<>> >> >>
              /\ UNCHANGED diff
       ELSE /\ diff' = Difference(tif_val.v, ee_val.v)
            /\ stdout' = stdout \o << <<"EE value", ee_val>>, <<"TIFF value", tif_val>>,
                                      <<"Difference", diff'>> >>
    /\ Exit(0, "")
    /\ UNCHANGED <<script, argv, ee_ok, plt, args, ds, scale_m, name, tiff_path,
                   ee_val, rowcol, val, tif_val, stats, scale, new_hw, effects>>

-----------------------------------------------------------------------------
(* check_tif.py *)

\* ds.read(1, masked=True): a cell is masked when the raster has a no-data
\* value and the cell equals it.
MaskedReadIsNodata(v, nd) == ~nd.none /\ v = nd.v

\* np.ma.masked_equal(thumb, ds.nodata) if ds.nodata is not None else thumb
MaskedEqualIsNodata(v, nd) == ~nd.none /\ v = nd.v

\* The unmasked cells of data.
ValidCells(d) == { rc \in Cells(d) : ~MaskedReadIsNodata(d.grid[rc[1]][rc[2]], d.nodata) }

RECURSIVE SumOver(_, _)
SumOver(d, S) == IF S = {} THEN 0
                 ELSE LET rc == CHOOSE x \in S : TRUE
                      IN d.grid[rc[1]][rc[2]] + SumOver(d, S \ {rc})

\* The stats dict.  With no unmasked cell every reduction gives the constant
\* np.ma.masked.  The mean is kept as sum and count; the standard deviation
\* is a function of the same cells and is not evaluated.
Statistics(d) ==
    LET V == ValidCells(d)
        vals == { d.grid[rc[1]][rc[2]] : rc \in V }
    IN IF V = {}
         THEN [masked |-> TRUE, min |-> 0, max |-> 0, sum |-> 0, count |-> 0]
       ELSE [masked |-> FALSE,
             min |-> CHOOSE m \in vals : \A x \in vals : m <= x,
             max |-> CHOOSE m \in vals : \A x \in vals : x <= m,
             sum |-> SumOver(d, V),
             count |-> Cardinality(V)]

\* f"{v:0.3f}" with v the constant np.ma.masked: numpy before 1.19 raises
\* TypeError (unsupported format string), later versions warn and print "--".
\* The script pins no numpy version.
FormatMaskedOutcomes == {"printed", "TypeError"}

\* scale = max(min(args.thumb_scale, 1.0), 0.01), in thousandths.
ClampScale(ts) == PyMax(PyMin(ts, F(1000)), F(10))

\* int(n * scale) for a scale that is a number (truncation; scale > 0 here).
ScaledDim(n, sc) == (n * sc.v) \div 1000

\* The module's imports and parse_args().
ChkParseArgs ==
    /\ script = "check_tif"
    /\ pc = "start"
    /\ IF ~IsFloatLiteral(args.thumb_scale)
         THEN Exit(2, "argument --thumb-scale: invalid float value")
       ELSE pc' = "open" /\ UNCHANGED <<exit_code, stderr>>
    /\ UNCHANGED <<script, argv, ee_ok, plt, args, ds, scale_m, name, tiff_path, ee_val,
                   rowcol, val, tif_val, diff, stats, scale, new_hw, effects, stdout>>

\* path.exists(), rasterio.open(path) and the metadata listing.
ChkOpen ==
    /\ script = "check_tif"
    /\ pc = "open"
    /\ \/ /\ effects' = effects \o <<"path.exists">>
          /\ Exit(1, "File not found")
          /\ UNCHANGED <<ds, stdout>>
       \/ \E d \in Rasters({"4326", "3857"}) :
             /\ ds' = d
             /\ effects' = effects \o <<"path.exists", "rasterio.open">>
             /\ stdout' = Append(stdout, <<"Metadata", <<d.width, d.height, d.crs>> >>)
             /\ pc' = "stats"
             /\ UNCHANGED <<exit_code, stderr>>
    /\ UNCHANGED <<script, argv, ee_ok, plt, args, scale_m, name, tiff_path, ee_val,
                   rowcol, val, tif_val, diff, stats, scale, new_hw>>

\* The masked read, the four reductions and the statistics listing.
ChkStats ==
    /\ script = "check_tif"
    /\ pc = "stats"
    /\ stats' = Statistics(ds)
    /\ effects' = Append(effects, "ds.read(masked)")
    /\ IF stats'.masked
         THEN \E o \in FormatMaskedOutcomes :
                IF o = "printed"
                  THEN /\ stdout' = Append(stdout, <<"Statistics", "--">>)
                       /\ pc' = "thumb"
                       /\ UNCHANGED <<exit_code, stderr>>
                ELSE /\ Exit(1, "TypeError: unsupported format string")
                     /\ UNCHANGED stdout
       ELSE /\ stdout' = Append(stdout, <<"Statistics", stats'>>)
            /\ pc' = "thumb"
            /\ UNCHANGED <<exit_code, stderr>>
    /\ UNCHANGED <<script, argv, ee_ok, plt, args, ds, scale_m, name, tiff_path, ee_val,
                   rowcol, val, tif_val, diff, scale, new_hw>>

\* What reading and saving a thumbnail with a zero dimension ends in is
\* decided inside rasterio and matplotlib.
EmptyThumbOutcomes == {"saved", "error"}

\* The `if args.thumb:` block.
ChkThumb ==
    /\ script = "check_tif"
    /\ pc = "thumb"
    /\ IF ~args.thumb
         THEN /\ pc' = "show"
              /\ UNCHANGED <<scale, new_hw, effects, stdout, exit_code, stderr>>
       ELSE IF plt = "None"
         THEN /\ stdout' = Append(stdout, <<"matplotlib not available", "thumbnail">>)
              /\ pc' = "show"
              /\ UNCHANGED <<scale, new_hw, effects, exit_code, stderr>>
       ELSE /\ scale' = ClampScale(FloatOf(args.thumb_scale))
            /\ IF scale'.nan
                 THEN /\ Exit(1, "ValueError: cannot convert float NaN to integer")
                      /\ UNCHANGED <<new_hw, effects, stdout>>
               ELSE /\ new_hw' = <<ScaledDim(ds.height, scale'), ScaledDim(ds.width, scale')>>
                    /\ \E o \in (IF new_hw'[1] = 0 \/ new_hw'[2] = 0
                                 THEN EmptyThumbOutcomes ELSE {"saved"}) :
                         IF o = "saved"
                           THEN /\ effects' = effects \o
                                      ( <<"ds.read(out_shape)">>
                                        \o (IF ds.nodata.none THEN <<>> ELSE <<"masked_equal">>)
                                        \o <<"plt.imsave">> )
                                /\ stdout' = Append(stdout, <<"Thumbnail saved", new_hw'>>)
                                /\ pc' = "show"
                                /\ UNCHANGED <<exit_code, stderr>>
                         ELSE /\ effects' = Append(effects, "ds.read(out_shape)")
                              /\ Exit(1, "empty thumbnail")
                              /\ UNCHANGED stdout
    /\ UNCHANGED <<script, argv, ee_ok, plt, args, ds, scale_m, name, tiff_path, ee_val,
                   rowcol, val, tif_val, diff, stats>>

\* The `if args.show:` block and the end of main().
ChkShow ==
    /\ script = "check_tif"
    /\ pc = "show"
    /\ IF ~args.show
         THEN UNCHANGED <<effects, stdout>>
       ELSE IF plt = "None"
         THEN /\ stdout' = Append(stdout, <<"matplotlib not available", "display">>)
              /\ UNCHANGED effects
       ELSE /\ effects' = effects \o <<"plt.imshow", "plt.show">>
            /\ UNCHANGED stdout
    /\ Exit(0, "")
    /\ UNCHANGED <<script, argv, ee_ok, plt, args, ds, scale_m, name, tiff_path, ee_val,
                   rowcol, val, tif_val, diff, stats, scale, new_hw>>

-----------------------------------------------------------------------------
Next ==
    \/ ExportStart
    \/ ExportMain
    \/ CmpParseArgs
    \/ CmpEeValue
    \/ CmpTiffValue
    \/ CmpReport
    \/ ChkParseArgs
    \/ ChkOpen
    \/ ChkStats
    \/ ChkThumb
    \/ ChkShow

Spec == Init /\ [][Next]_vars

-----------------------------------------------------------------------------
(* Properties *)

Printed(tag) == \E i \in DOMAIN stdout : stdout[i][1] = tag
Called(e) == \E i \in DOMAIN effects : effects[i] = e

InBounds(rc, d) == 0 <= rc[1] /\ rc[1] < d.height /\ 0 <= rc[2] /\ rc[2] < d.width

\* tiff_sst_value got as far as inverting the geotransform.
Sampled == script = "compare_sst" /\ Called("ds.index")

\* C1: a query point whose pixel index lies outside the raster gives Missing
\* (NaN): never the value of a grid cell, never an exception.
C1_OutOfBoundsIsMissing ==
    (Sampled /\ ~InBounds(rowcol, ds)) => (tif_val.nan /\ stderr # "IndexError")

\* The thumbnail block computed new_h and new_w.
ThumbDimsComputed ==
    /\ script = "check_tif" /\ args.thumb /\ plt = "module"
    /\ Called("ds.read(out_shape)")

\* C2: for a scale in [0.01, 1.0] the thumbnail dimensions are
\* floor(height*scale) and floor(width*scale), and both are at least 1.
C2_ThumbDimsAtLeastOne ==
    ThumbDimsComputed =>
        /\ new_hw[1] = (ds.height * scale.v) \div 1000
        /\ new_hw[2] = (ds.width * scale.v) \div 1000
        /\ new_hw[1] >= 1
        /\ new_hw[2] >= 1

\* C3: the masked read / masked_equal of check_tif.py and the np.isclose
\* test of compare_sst.py classify the sampled cell alike.
C3_NodataPathsAgree ==
    (script = "compare_sst" /\ pc = "report" /\ InBounds(rowcol, ds)) =>
        /\ tif_val.nan <=> MaskedReadIsNodata(val, ds.nodata)
        /\ tif_val.nan <=> MaskedEqualIsNodata(val, ds.nodata)

\* The token does not denote a positive number.
NotPositiveNumber(t) ==
    ~IsFloatLiteral(t) \/ FloatOf(t).nan \/ FloatOf(t).v <= 0

\* The SCALE token of the run, for the scripts that take one.
ScaleGiven ==
    \/ script \in Exports /\ Len(argv) = 1
    \/ script = "compare_sst"
ScaleToken == IF script \in Exports THEN argv[1] ELSE args.scale

\* C4: a SCALE that is not a positive number ends the run with a non-zero
\* status and a message before Earth Engine or the raster is touched.
C4_InvalidScaleRejected ==
    (ScaleGiven /\ NotPositiveNumber(ScaleToken)) =>
        /\ pc \in {"start", "done"}
        /\ effects = <<>>
        /\ pc = "done" => (exit_code # 0 /\ stderr # "")

\* C5: a raster whose CRS is not EPSG:4326 ends the run with a non-zero
\* status and a message before ds.index and ds.read; no TIFF value and no
\* difference is printed.
C5_CrsMismatchRejected ==
    (script = "compare_sst" /\ ds.height > 0 /\ ds.crs # "4326") =>
        /\ pc = "done" /\ exit_code # 0 /\ stderr # ""
        /\ ~Called("ds.index") /\ ~Called("ds.read")
        /\ ~Printed("TIFF value") /\ ~Printed("Difference")
        /\ ~Printed("One of the values is NaN")

C5_Witness ==
    /\ script = "compare_sst" /\ pc = "done"
    /\ ds.height > 0 /\ ds.crs = "3857"
    /\ Called("rasterio.open")
    /\ stderr = "TIFF CRS is not EPSG:4326"

\* C6: when the run completes, a missing EE value or TIFF value gives the
\* "NaN" notice and no difference; otherwise the last line printed is the
\* difference TIFF value minus EE value.
C6_ComparisonOutcome ==
    (script = "compare_sst" /\ pc = "done" /\ exit_code = 0) =>
        IF ee_val.nan \/ tif_val.nan
          THEN Printed("One of the values is NaN") /\ ~Printed("Difference")
        ELSE /\ stdout[Len(stdout)] = <<"Difference", tif_val.v - ee_val.v>>
             /\ ~Printed("One of the values is NaN")

C6_Witness ==
    /\ script = "compare_sst" /\ pc = "done" /\ exit_code = 0
    /\ ~ee_val.nan /\ ~tif_val.nan
    /\ tif_val.v > ee_val.v
    /\ Printed("Difference")

\* The thumbnail block was entered with matplotlib present.
ThumbBlockEntered ==
    /\ script = "check_tif" /\ args.thumb /\ plt = "module"
    /\ \/ pc = "show"
       \/ pc = "done" /\ stderr \in {"", "empty thumbnail",
                                     "ValueError: cannot convert float NaN to integer"}

\* The scale C7 expects for a request that is a number, in thousandths.
ExpectedScale(req) == IF req.v < 10 THEN F(10) ELSE IF req.v > 1000 THEN F(1000) ELSE req

\* C7: the scale used is the request clamped into [0.01, 1.0], and no
\* requested scale ends the run.
C7_ScaleClampedNeverFatal ==
    ThumbBlockEntered =>
        /\ ~FloatOf(args.thumb_scale).nan => scale = ExpectedScale(FloatOf(args.thumb_scale))
        /\ stderr # "ValueError: cannot convert float NaN to integer"

\* C8: with no valid cell the four statistics are the undefined result, no
\* error is raised and the run goes on to the thumbnail block.
C8_EmptyStatisticsNeverFatal ==
    (script = "check_tif" /\ Called("ds.read(masked)") /\ ValidCells(ds) = {}) =>
        /\ stats.masked
        /\ stderr # "TypeError: unsupported format string"

\* C9: without matplotlib check_tif.py still prints metadata and statistics,
\* and without the Earth Engine package compare_sst.py still samples the TIFF.
C9_OptionalCollaborators ==
    /\ (script = "check_tif" /\ plt = "None" /\ pc = "done" /\ exit_code = 0) =>
           (Printed("Metadata") /\ Printed("Statistics"))
    /\ (script = "compare_sst" /\ ~ee_ok /\ pc = "done") => Called("ds.read")

\* C10: for a positive SCALE the default GeoTIFF name of compare_sst.py is
\* the name export_oisst.py queues followed by ".tif", and both are
\* "oisst_20200315_s" + floor(SCALE/1000) + "k".
C10_FileNamesAgree ==
    /\ (script = "compare_sst" /\ tiff_path # "" /\ args.file = "None" /\ scale_m > 0) =>
           /\ tiff_path = ExportName("export_oisst", scale_m) \o ".tif"
           /\ tiff_path = "oisst_20200315_s" \o FormatInt(scale_m \div 1000) \o "k.tif"
    /\ (script = "export_oisst" /\ name # "") =>
           /\ name \o ".tif" = make_default_fname(scale_m)
           /\ name = "oisst_20200315_s" \o FormatInt(scale_m \div 1000) \o "k"

C10_Witness ==
    /\ script = "compare_sst"
    /\ args.scale = <<"2", "0", "0", "0", "0">>
    /\ args.file = "None"
    /\ tiff_path = "oisst_20200315_s20k.tif"
====
